---- MODULE Spec2Model ----
(***************************************************************************)
(* Control flow of the three example scripts of mcp-use:                   *)
(*   examples/airbnb_use.py     (run_airbnb_example)                       *)
(*   examples/browser_use.py    (main)                                     *)
(*   examples/mcp_everything.py (main)                                     *)
(* One behaviour is one load of one script module, either as the main      *)
(* program or by import.  The calls into the mcp_use library, dotenv and   *)
(* langchain_ollama are modelled by their outcomes: each returns or        *)
(* raises; agent.run may start sessions; close_all_sessions releases them. *)
(***************************************************************************)
EXTENDS Integers, Sequences, FiniteSets, TLC

VARIABLES
  script,            \* which of the three modules is loaded
  name,              \* the module's __name__
  pc,                \* position of the single thread of control
  exc,               \* the failure currently propagating, or NoExc
  everything_server, \* module global of mcp_everything.py
  clientConfig,      \* argument the client constructor received
  sessions,          \* client.sessions: the sessions held open
  opened,            \* sessions started during agent.run
  atFinally,         \* client.sessions when the finally block was entered
  result,            \* local variable result
  stdout,            \* lines the script printed
  inflight,          \* awaited calls that have started and not finished
  history            \* the calls made so far, in order, with their outcome

vars == <<script, name, pc, exc, everything_server, clientConfig, sessions,
          opened, atFinally, result, stdout, inflight, history>>

\* ---------------------------------------------------------------- bounds
\* number of servers named by a configuration file (airbnb_mcp.json,
\* browser_mcp.json); the files are not part of the sources
MaxServers == 2

\* ------------------------------------------------------------ value sets
Scripts == {"airbnb", "browser", "everything"}
Names == {"__main__", "examples"}
Results == {"", "three listings", "a\nb"}
Failures == {"F1", "F2"}
NoExc == "NoExc"
NoValue == "NoValue"
Undefined == [undefined |-> TRUE]
Steps == {"load_dotenv", "client", "llm", "agent", "run"}

\* ---------------------------------------------------- module level code
everything_server_literal_extra ==
  [mcpServers |->
    [everything |-> [command |-> "npx",
                     args |-> <<"-y", "@modelcontextprotocol/server-everything">>],
     other |-> [command |-> "npx", args |-> <<"-y">>]]]

everything_server_literal ==
  [mcpServers |->
    [everything |-> [command |-> "npx",
                     args |-> <<"-y", "@modelcontextprotocol/server-everything">>]]]

\* os.path.join(os.path.dirname(__file__), "<script>_mcp.json")
ConfigFile(s) ==
  [path |-> IF s = "airbnb" THEN "airbnb_mcp.json" ELSE "browser_mcp.json"]

\* the servers the client is configured with
ConfiguredServers ==
  IF script = "everything"
  THEN 1..Cardinality(DOMAIN clientConfig.mcpServers)
  ELSE 1..MaxServers

IsMainAlways(n) == TRUE

\* if __name__ == "__main__":
IsMain(n) == n = "__main__"

\* f"\nResult: {result}"
FormatResultNoValue(r) == "\nResult: "

FormatResult(r) == "\nResult: " \o r

SessionsTruthyAlways(s) == TRUE

\* if client.sessions:
SessionsTruthy(s) == s # {}

\* ------------------------------------------------- the mcp_use library
\* sessions agent.run may have started when it returns or raises
MCPAgent_run_sessions(servers) == SUBSET servers

\* client.sessions after close_all_sessions returned
close_all_sessions_returned(s) == {}

\* client.sessions after close_all_sessions raised part way
close_all_sessions_raised(s) == SUBSET s

\* ------------------------------------------------------------- helpers
Event(op, ev, val) == <<op, ev, val>>

Log(op, ev, val) == history' = Append(history, Event(op, ev, val))

\* how a coroutine that has run off its end, or is unwinding, finishes
Exit(e) == IF e = NoExc THEN "returned" ELSE "raised"

Init ==
  /\ script \in Scripts
  /\ name \in Names
  /\ pc = "module"
  /\ exc = NoExc
  /\ everything_server = Undefined
  /\ clientConfig = Undefined
  /\ sessions = {}
  /\ opened = {}
  /\ atFinally = {}
  /\ result = NoValue
  /\ stdout = <<>>
  /\ inflight = {}
  /\ history = <<>>

\* ------------------------------------------------------- shared shapes
\* a synchronous call at position here: it returns, or raises out of the
\* coroutine (none of these calls is inside a try)
SyncCall(s, here, next, op) ==
  /\ script = s
  /\ pc = here
  /\ \/ /\ pc' = next
        /\ Log(op, "ret", "")
        /\ UNCHANGED exc
     \/ \E f \in Failures :
          /\ pc' = "raised"
          /\ exc' = f
          /\ Log(op, "exc", f)
  /\ UNCHANGED <<script, name, everything_server, clientConfig, sessions,
                 opened, atFinally, result, stdout, inflight>>

\* the client constructor, given its argument
ClientCall(s, arg) ==
  /\ script = s
  /\ pc = "client"
  /\ \/ /\ pc' = "llm"
        /\ clientConfig' = arg
        /\ Log("client", "ret", "")
        /\ UNCHANGED exc
     \/ \E f \in Failures :
          /\ pc' = "raised"
          /\ exc' = f
          /\ Log("client", "exc", f)
          /\ UNCHANGED clientConfig
  /\ UNCHANGED <<script, name, everything_server, sessions, opened,
                 atFinally, result, stdout, inflight>>

\* result = await agent.run(...): the call starts and the coroutine suspends
RunCallNoAwait(s) ==
  /\ script = s
  /\ pc = "run"
  /\ pc' = "print"
  /\ inflight' = inflight \cup {"run"}
  /\ result' = "pending"
  /\ Log("run", "call", "")
  /\ UNCHANGED <<script, name, exc, everything_server, clientConfig,
                 sessions, opened, atFinally, stdout>>

RunCall(s) ==
  /\ script = s
  /\ pc = "run"
  /\ pc' = "await_run"
  /\ inflight' = inflight \cup {"run"}
  /\ Log("run", "call", "")
  /\ UNCHANGED <<script, name, exc, everything_server, clientConfig,
                 sessions, opened, atFinally, result, stdout>>

\* agent.run returns r, having started the sessions in new
RunReturn(s) ==
  /\ script = s
  /\ pc = "await_run"
  /\ \E r \in Results, new \in MCPAgent_run_sessions(ConfiguredServers) :
       /\ result' = r
       /\ sessions' = sessions \cup new
       /\ opened' = opened \cup new
       /\ Log("run", "ret", r)
  /\ inflight' = inflight \ {"run"}
  /\ pc' = "print"
  /\ UNCHANGED <<script, name, exc, everything_server, clientConfig,
                 atFinally, stdout>>

\* agent.run raises f, having started the sessions in new; next is where
\* the failure takes the coroutine
RunRaise(s, next) ==
  /\ script = s
  /\ pc = "await_run"
  /\ \E f \in Failures, new \in MCPAgent_run_sessions(ConfiguredServers) :
       /\ exc' = f
       /\ sessions' = sessions \cup new
       /\ opened' = opened \cup new
       /\ Log("run", "exc", f)
  /\ inflight' = inflight \ {"run"}
  /\ pc' = next
  /\ UNCHANGED <<script, name, everything_server, clientConfig, atFinally,
                 result, stdout>>

\* print(f"\nResult: {result}")
PrintResult(s, next) ==
  /\ script = s
  /\ pc = "print"
  /\ stdout' = Append(stdout, FormatResult(result))
  /\ Log("print", "ret", FormatResult(result))
  /\ pc' = next
  /\ UNCHANGED <<script, name, exc, everything_server, clientConfig,
                 sessions, opened, atFinally, result, inflight>>

\* ------------------------------------------------------- airbnb_use.py
Airbnb_module ==
  /\ script = "airbnb"
  /\ pc = "module"
  /\ pc' = IF IsMain(name) THEN "load_dotenv" ELSE "imported"
  /\ UNCHANGED <<script, name, exc, everything_server, clientConfig,
                 sessions, opened, atFinally, result, stdout, inflight,
                 history>>

Airbnb_load_dotenv == SyncCall("airbnb", "load_dotenv", "client", "load_dotenv")

Airbnb_client == ClientCall("airbnb", ConfigFile("airbnb"))

Airbnb_llm == SyncCall("airbnb", "llm", "agent", "llm")

Airbnb_agent == SyncCall("airbnb", "agent", "run", "agent")

Airbnb_run_call_no_await == RunCallNoAwait("airbnb")

Airbnb_run_call == RunCall("airbnb")

Airbnb_run_return == RunReturn("airbnb")

Airbnb_run_raise_unguarded == RunRaise("airbnb", "raised")

Airbnb_run_raise_retry == RunRaise("airbnb", "run")

\* a failure of agent.run inside the try enters the finally block
Airbnb_run_raise == RunRaise("airbnb", "finally")

Airbnb_print == PrintResult("airbnb", "finally")

\* finally: if client.sessions: await client.close_all_sessions()
Airbnb_finally ==
  /\ script = "airbnb"
  /\ pc = "finally"
  /\ atFinally' = sessions
  /\ IF SessionsTruthy(sessions)
     THEN /\ pc' = "await_close"
          /\ inflight' = inflight \cup {"close"}
          /\ history' = history \o <<Event("finally", "ret", ""),
                                     Event("close", "call", "")>>
     ELSE /\ pc' = Exit(exc)
          /\ inflight' = inflight
          /\ Log("finally", "ret", "")
  /\ UNCHANGED <<script, name, exc, everything_server, clientConfig,
                 sessions, opened, result, stdout>>

\* close_all_sessions returns; a pending failure of the try body resumes
Airbnb_close_return ==
  /\ script = "airbnb"
  /\ pc = "await_close"
  /\ sessions' = close_all_sessions_returned(sessions)
  /\ inflight' = inflight \ {"close"}
  /\ Log("close", "ret", "")
  /\ pc' = Exit(exc)
  /\ UNCHANGED <<script, name, exc, everything_server, clientConfig,
                 opened, atFinally, result, stdout>>

\* close_all_sessions raises g inside the finally block: g propagates in
\* place of whatever failure was pending
Airbnb_close_raise ==
  /\ script = "airbnb"
  /\ pc = "await_close"
  /\ \E g \in Failures, left \in close_all_sessions_raised(sessions) :
       /\ exc' = g
       /\ sessions' = left
       /\ Log("close", "exc", g)
  /\ inflight' = inflight \ {"close"}
  /\ pc' = "raised"
  /\ UNCHANGED <<script, name, everything_server, clientConfig, opened,
                 atFinally, result, stdout>>

\* ------------------------------------------------------ browser_use.py
Browser_module ==
  /\ script = "browser"
  /\ pc = "module"
  /\ pc' = IF IsMain(name) THEN "load_dotenv" ELSE "imported"
  /\ UNCHANGED <<script, name, exc, everything_server, clientConfig,
                 sessions, opened, atFinally, result, stdout, inflight,
                 history>>

Browser_load_dotenv == SyncCall("browser", "load_dotenv", "client", "load_dotenv")

Browser_client == ClientCall("browser", ConfigFile("browser"))

Browser_llm == SyncCall("browser", "llm", "agent", "llm")

Browser_agent == SyncCall("browser", "agent", "run", "agent")

Browser_run_call == RunCall("browser")

Browser_run_return == RunReturn("browser")

Browser_run_raise == RunRaise("browser", "raised")

Browser_print_then_close ==
  /\ script = "browser"
  /\ pc = "print"
  /\ stdout' = Append(stdout, FormatResult(result))
  /\ sessions' = {}
  /\ history' = history \o <<Event("print", "ret", FormatResult(result)),
                             Event("close", "call", ""),
                             Event("close", "ret", "")>>
  /\ pc' = "returned"
  /\ UNCHANGED <<script, name, exc, everything_server, clientConfig,
                 opened, atFinally, result, inflight>>

Browser_print == PrintResult("browser", "returned")

\* --------------------------------------------------- mcp_everything.py
Everything_module ==
  /\ script = "everything"
  /\ pc = "module"
  /\ everything_server' = everything_server_literal
  /\ pc' = IF IsMain(name) THEN "load_dotenv" ELSE "imported"
  /\ UNCHANGED <<script, name, exc, clientConfig, sessions, opened,
                 atFinally, result, stdout, inflight, history>>

Everything_load_dotenv == SyncCall("everything", "load_dotenv", "client", "load_dotenv")

Everything_client == ClientCall("everything", everything_server)

Everything_llm == SyncCall("everything", "llm", "agent", "llm")

Everything_agent == SyncCall("everything", "agent", "run", "agent")

Everything_run_call == RunCall("everything")

Everything_run_return == RunReturn("everything")

Everything_run_raise == RunRaise("everything", "raised")

Everything_print == PrintResult("everything", "returned")

Next ==
  \/ Airbnb_module
  \/ Airbnb_load_dotenv
  \/ Airbnb_client
  \/ Airbnb_llm
  \/ Airbnb_agent
  \/ Airbnb_run_call
  \/ Airbnb_run_return
  \/ Airbnb_run_raise
  \/ Airbnb_print
  \/ Airbnb_finally
  \/ Airbnb_close_return
  \/ Airbnb_close_raise
  \/ Browser_module
  \/ Browser_load_dotenv
  \/ Browser_client
  \/ Browser_llm
  \/ Browser_agent
  \/ Browser_run_call
  \/ Browser_run_return
  \/ Browser_run_raise
  \/ Browser_print
  \/ Everything_module
  \/ Everything_load_dotenv
  \/ Everything_client
  \/ Everything_llm
  \/ Everything_agent
  \/ Everything_run_call
  \/ Everything_run_return
  \/ Everything_run_raise
  \/ Everything_print

Spec == Init /\ [][Next]_vars

\* ------------------------------------------------------------ properties
Finished == pc \in {"returned", "raised"}

Has(op, ev) == \E i \in DOMAIN history : history[i][1] = op /\ history[i][2] = ev

Count(op, ev) ==
  Cardinality({i \in DOMAIN history : history[i][1] = op /\ history[i][2] = ev})

RunInvoked == Has("run", "call")

CleanupEntered == Has("finally", "ret")

C2_SameFailure ==
  \A f \in Failures :
    (script = "airbnb" /\ Finished
       /\ \E i \in DOMAIN history : history[i] = Event("run", "exc", f))
      => (pc = "raised" /\ exc = f)

\* C3: in the Airbnb script close_all_sessions is called only while
\* client.sessions is non-empty, and when client.sessions is empty at the
\* finally block no close call is made.
C3_CloseOnlyWhenSessions ==
  /\ pc = "await_close" => sessions # {}
  /\ Has("close", "call") => atFinally # {}
  /\ (CleanupEntered /\ atFinally = {}) => ~Has("close", "call")

C3_Witness ==
  /\ script = "airbnb"
  /\ pc = "await_close"
  /\ sessions # {}
  /\ Has("close", "call")

\* the first step that raised
FirstRaise ==
  CHOOSE i \in DOMAIN history :
    /\ history[i][1] \in Steps /\ history[i][2] = "exc"
    /\ \A j \in 1..(i - 1) : ~(history[j][1] \in Steps /\ history[j][2] = "exc")

\* C4: in all three scripts, when a step of the entry point raises, the
\* entry point ends by raising that failure, no later step runs except the
\* Airbnb script's finally block, and no result is printed.
C4_NoFailureCaught ==
  (\E i \in DOMAIN history : history[i][1] \in Steps /\ history[i][2] = "exc")
    => /\ \A j \in (FirstRaise + 1)..Len(history) :
            script = "airbnb" /\ history[j][1] \in {"finally", "close"}
       /\ stdout = <<>>
       /\ Finished => (pc = "raised" /\ exc = history[FirstRaise][3])

\* the value agent.run returned
Returned == history[CHOOSE i \in DOMAIN history :
                      history[i][1] = "run" /\ history[i][2] = "ret"][3]

\* C5 as stated: every terminated run has printed exactly once, after
\* agent.run returned, and the printed line carries the returned value.
C5_Original ==
  Finished => /\ Len(stdout) = 1
              /\ Has("run", "ret")
              /\ stdout[1] = "\nResult: " \o Returned

\* C5 amended: a run prints at most once; a terminated run has printed
\* exactly once if agent.run returned and not at all if a step raised
\* before the print; the print happens only after agent.run has returned,
\* and the text is "\nResult: " followed by the returned value, unchanged.
C5_Amended ==
  /\ Len(stdout) <= 1
  /\ Len(stdout) = 1 => /\ Has("run", "ret")
                        /\ stdout[1] = "\nResult: " \o Returned
  /\ Finished => (Len(stdout) = 1 <=> Has("run", "ret"))

C5_Witness ==
  /\ pc = "returned"
  /\ Has("run", "ret")
  /\ Len(stdout) = 1
  /\ result = "a\nb"

WellFormedEverything(c) ==
  /\ DOMAIN c = {"mcpServers"}
  /\ DOMAIN c.mcpServers = {"everything"}
  /\ DOMAIN c.mcpServers.everything = {"command", "args"}
  /\ c.mcpServers.everything.command = "npx"
  /\ c.mcpServers.everything.args = <<"-y", "@modelcontextprotocol/server-everything">>

\* C6: in the 'everything' script the mapping has exactly one server entry,
\* "everything", with command "npx" and arguments
\* ["-y", "@modelcontextprotocol/server-everything"], from its definition
\* to the end of the run, and that is what MCPClient(config=...) received.
C6_EverythingConfig ==
  script = "everything"
    => /\ pc # "module" => WellFormedEverything(everything_server)
       /\ Has("client", "ret") => WellFormedEverything(clientConfig)

C6_Witness ==
  /\ script = "everything"
  /\ pc = "returned"
  /\ Has("client", "ret")
  /\ clientConfig = everything_server

\* C7: when a script module is loaded by import the entry point is not
\* started: nothing is constructed, no agent run starts, nothing is printed.
C7_NoRunOnImport ==
  name # "__main__"
    => /\ pc \in {"module", "imported"}
       /\ history = <<>>
       /\ stdout = <<>>
       /\ clientConfig = Undefined
       /\ inflight = {}
       /\ sessions = {}

C7_Witness ==
  /\ name # "__main__"
  /\ pc = "imported"

Rank(op) ==
  CASE op = "load_dotenv" -> 1
    [] op = "client" -> 2
    [] op = "llm" -> 3
    [] op = "agent" -> 4
    [] op = "run" -> 5
    [] op = "print" -> 6
    [] op = "finally" -> 7
    [] op = "close" -> 8

\* C8: one thread of control: the steps happen in the order load
\* environment, client, model, agent, agent.run, print, (Airbnb) close;
\* while an awaited call is in progress the entry point is suspended at it,
\* so at most one call is in progress and close_all_sessions never overlaps
\* agent.run.
C8_Sequential ==
  /\ Cardinality(inflight) <= 1
  /\ ("run" \in inflight) <=> (pc = "await_run")
  /\ ("close" \in inflight) <=> (pc = "await_close")
  /\ \A i, j \in DOMAIN history :
       i < j => \/ Rank(history[i][1]) < Rank(history[j][1])
                \/ /\ history[i][1] = history[j][1]
                   /\ j = i + 1
                   /\ history[i][2] = "call"
  /\ Has("close", "call") => script = "airbnb"

C8_Witness ==
  /\ script = "airbnb"
  /\ pc = "await_close"
  /\ Has("print", "ret")
  /\ inflight = {"close"}

\* C9: in one run the client, the model and the agent are each constructed
\* at most once, agent.run is invoked at most once (no retry after a
\* failure), close_all_sessions is invoked at most once and never before
\* agent.run has been invoked.
C9_OnceEach ==
  /\ \A op \in {"load_dotenv", "client", "llm", "agent"} :
       Count(op, "ret") + Count(op, "exc") <= 1
  /\ Count("run", "call") <= 1
  /\ Count("close", "call") <= 1
  /\ \A j \in DOMAIN history :
       history[j][1] = "close"
         => \E i \in 1..(j - 1) : history[i] = Event("run", "call", "")

C9_Witness ==
  /\ script = "airbnb"
  /\ pc = "raised"
  /\ Has("run", "exc")
  /\ Count("run", "call") = 1
  /\ Count("close", "call") = 1

\* C10: the browser script and the 'everything' script never call
\* close_all_sessions, so every session started during agent.run is still
\* open when they finish, whether agent.run returned or raised; in the
\* Airbnb script a failure raised before the try block ends the run without
\* the cleanup block.
C10_ReleaseOnlyInAirbnb ==
  /\ script \in {"browser", "everything"}
       => /\ ~Has("close", "call")
          /\ ~CleanupEntered
          /\ sessions = opened
  /\ (script = "airbnb"
        /\ \E i \in DOMAIN history :
             /\ history[i][1] \in {"load_dotenv", "client", "llm", "agent"}
             /\ history[i][2] = "exc")
       => (pc = "raised" /\ ~CleanupEntered /\ ~Has("close", "call"))

C10_Witness ==
  /\ script = "browser"
  /\ pc = "raised"
  /\ Has("run", "exc")
  /\ sessions # {}

====
